---- MODULE Spec2Model ----
(***************************************************************************)
(* diart/models.py: the SegmentationModel and EmbeddingModel interfaces    *)
(* and the adapters that from_pyannote builds around a model resolved by   *)
(* pyannote.get_model.                                                     *)
(*                                                                         *)
(* The adapters are objects on a heap; the caller holds references to the  *)
(* ones a constructor returned.  The hub (pyannote.get_model) and the      *)
(* wrapped models are the environment: their replies are functions of what *)
(* the adapter hands them, so that what the adapter hands them is visible  *)
(* in every result.                                                        *)
(***************************************************************************)
EXTENDS Integers, Sequences, FiniteSets, TLC

\* ------------------------------------------------------------------ bounds

\* Objects ever allocated (adapters, returned or abandoned half-built).
MaxObjects == 2
\* Largest batch dimension of a waveform or of a weights tensor.
MaxBatch == 2
\* Threads that may be inside a forward call at the same time.
NumThreads == 2

\* ------------------------------------------------------------- environment

None == [tag |-> "None"]
Unset == [tag |-> "Unset"]

\* use_auth_token: Optional[Text], or True for the ambient credential.
Tokens == {None, [tag |-> "True"], [tag |-> "Text"]}

\* What the hub knows.  Every pyannote model carries audio.sample_rate and
\* specifications.duration; `window` is the sample count a segmentation model
\* accepts, `step` the samples per output frame, `resamples` whether an
\* embedding model's pooling resamples weights of another frame count.
Catalogue ==
    [seg   |-> [task |-> "segmentation", gated |-> FALSE,
                sample_rate |-> 16000, duration |-> 5,
                window |-> 4, step |-> 2, speakers |-> 3, dimension |-> 0,
                resamples |-> FALSE],
     gated |-> [task |-> "segmentation", gated |-> TRUE,
                sample_rate |-> 8000, duration |-> 10,
                window |-> 6, step |-> 2, speakers |-> 4, dimension |-> 0,
                resamples |-> FALSE],
     emb   |-> [task |-> "embedding", gated |-> FALSE,
                sample_rate |-> 16000, duration |-> 3,
                window |-> 0, step |-> 2, speakers |-> 1, dimension |-> 8,
                resamples |-> TRUE],
     xvec  |-> [task |-> "embedding", gated |-> FALSE,
                sample_rate |-> 16000, duration |-> 2,
                window |-> 0, step |-> 2, speakers |-> 1, dimension |-> 4,
                resamples |-> FALSE]]

HubClasses == {"PyannoteSegmentationModel", "PyannoteEmbeddingModel"}
BaseClasses == {"SegmentationModel", "EmbeddingModel"}
SegmentationClasses == {"SegmentationModel", "PyannoteSegmentationModel"}

\* The identifiers a caller passes to the constructor of class cls: those of
\* the models of its task, and "nope", which the hub does not know.
ModelIds(cls) ==
    {id \in DOMAIN Catalogue :
        Catalogue[id].task = IF cls \in SegmentationClasses
                             THEN "segmentation" ELSE "embedding"}
    \cup {"nope"}

\* A reference to a loaded model (the ModelHandle).
Handle(id) == [tag |-> "Model", id |-> id]

Return(v) == [kind |-> "return", val |-> v]
Raise(e) == [kind |-> "raise", exc |-> e]

\* pyannote.get_model(pyannote_model, use_auth_token), one attempt, with the
\* network up or down at that moment.
get_model(id, token, up) ==
    IF ~up THEN Raise("ConnectionError")
    ELSE IF id \notin DOMAIN Catalogue THEN Raise("RepositoryNotFoundError")
    ELSE IF Catalogue[id].gated /\ token = None THEN Raise("GatedRepoError")
    ELSE Return(Handle(id))

\* The spec's error taxonomy, by the Python exception that carries it.
Taxonomy(exc) ==
    CASE exc = "AssertionError" -> "MissingDependency"
      [] exc = "NotImplementedError" -> "UnsupportedOperation"
      [] exc \in {"ConnectionError", "RepositoryNotFoundError", "GatedRepoError"}
            -> "HubResolutionError"
      [] exc = "RuntimeError" -> "ShapeMismatch"
      [] OTHER -> "Unclassified"

\* --------------------------------------------------------------- tensors

\* waveform: torch.Tensor, shape (batch, channels, samples).  Every waveform
\* here is mono, and two waveforms of the same shape are the same waveform.
Waveforms == [batch : 1..MaxBatch, samples : {4, 6}]

\* weights: Optional[torch.Tensor], shape (batch, frames).
WeightTensors == [batch : 1..MaxBatch, frames : {2, 3}, data : {"w"}]
Weights == {None} \cup WeightTensors

\* The call self.model(waveform) passes no weights keyword at all.
NoKeyword == [tag |-> "NoKeyword"]

Ones(b, f) == [batch |-> b, frames |-> f, data |-> "ones"]

\* The frames a model of identifier id pools over for this waveform.
Frames(id, waveform) == waveform.samples \div Catalogue[id].step

\* The forward pass of a wrapped model on the arguments it is handed; kw is
\* the weights keyword.  A segmentation model returns (batch, frames,
\* speakers) and rejects a window it was not built for; an embedding model
\* returns (batch, speakers, embedding_dim), pools uniformly without weights,
\* rejects weights of another batch size, and either resamples or rejects
\* weights of another frame count.
ModelForward(id, waveform, kw) ==
    LET m == Catalogue[id]
    IN  IF m.task = "segmentation"
        THEN IF waveform.samples # m.window THEN Raise("RuntimeError")
             ELSE Return([shape |-> <<waveform.batch, Frames(id, waveform),
                                      m.speakers>>,
                          model |-> id, input |-> waveform,
                          pooling |-> "none"])
        ELSE LET w == IF kw = NoKeyword THEN None ELSE kw
             IN  IF w # None /\ w.batch # waveform.batch
                 THEN Raise("RuntimeError")
                 ELSE IF w # None /\ w.frames # Frames(id, waveform)
                         /\ ~m.resamples
                 THEN Raise("RuntimeError")
                 ELSE Return([shape |-> <<waveform.batch, m.speakers,
                                          m.dimension>>,
                              model |-> id, input |-> waveform,
                              pooling |-> IF w = None \/ w.data = "ones"
                                          THEN "uniform" ELSE w.data])

\* ------------------------------------------------------------------ state

VARIABLES
    has_pyannote,   \* _has_pyannote, set by the import at module load
    debug,          \* __debug__: False when the interpreter runs with -O
    heap,           \* the objects allocated so far: [cls, model]
    visible,        \* heap indices the caller holds (a constructor returned them)
    last,           \* the operation completed last, with what it did
    memo,           \* a forward call the caller kept, and a later one like it
    pc,             \* per thread: where it is inside a forward call
    frame           \* per thread: the locals of its forward call

vars == <<has_pyannote, debug, heap, visible, last, memo, pc, frame>>

Threads == 1..NumThreads

NoOp == [op |-> "none"]
Idle == [tag |-> "Idle"]
NoMemo == [tag |-> "NoMemo"]

\* ------------------------------------------------------------ construction

\* What one constructor call did: its outcome, the object it allocated (if it
\* got as far as super().__init__()), and the replies the hub gave it.
Built(out, allocated, obj, heard) ==
    [out |-> out, allocated |-> allocated, obj |-> obj, heard |-> heard]

\* init, had it caught the error of the lookup and returned the adapter as it
\* stood, its model unset.
init_partial(cls, id, token, ups) ==
    IF ~has_pyannote
    THEN Built(Raise("NameError"), TRUE, [cls |-> cls, model |-> Unset], <<>>)
    ELSE LET reply == get_model(id, token, ups[1])
         IN  Built(Return("self"), TRUE,
                   [cls |-> cls,
                    model |-> IF reply.kind = "raise" THEN Unset ELSE reply.val],
                   <<reply>>)

\* init, had it asked the hub a second time after a failed lookup.
init_retry(cls, id, token, ups) ==
    IF ~has_pyannote
    THEN Built(Raise("NameError"), TRUE, [cls |-> cls, model |-> Unset], <<>>)
    ELSE LET first == get_model(id, token, ups[1])
             second == get_model(id, token, ups[2])
         IN  IF first.kind = "return"
             THEN Built(Return("self"), TRUE,
                        [cls |-> cls, model |-> first.val], <<first>>)
             ELSE IF second.kind = "return"
             THEN Built(Return("self"), TRUE,
                        [cls |-> cls, model |-> second.val], <<first, second>>)
             ELSE Built(second, TRUE, [cls |-> cls, model |-> Unset],
                        <<first, second>>)

\* PyannoteSegmentationModel.__init__ / PyannoteEmbeddingModel.__init__:
\* super().__init__() allocates the module, then self.model is bound to what
\* pyannote.get_model returns.  The global `pyannote` is bound only when the
\* import succeeded.  ups[i] is the state of the network at the i-th lookup.
init(cls, id, token, ups) ==
    IF ~has_pyannote
    THEN Built(Raise("NameError"), TRUE, [cls |-> cls, model |-> Unset], <<>>)
    ELSE LET reply == get_model(id, token, ups[1])
         IN  IF reply.kind = "raise"
             THEN Built(reply, TRUE, [cls |-> cls, model |-> Unset], <<reply>>)
             ELSE Built(Return("self"), TRUE,
                        [cls |-> cls, model |-> reply.val], <<reply>>)

\* SegmentationModel.from_pyannote / EmbeddingModel.from_pyannote, building an
\* adapter of the inner class cls.  The assert statement is compiled away
\* when __debug__ is False.
from_pyannote(cls, id, token, ups) ==
    IF debug /\ ~has_pyannote
    THEN Built(Raise("AssertionError"), FALSE, Unset, <<>>)
    ELSE init(cls, id, token, ups)

\* A call of one of the two named constructors.
FromPyannote(cls, id, token) ==
    /\ Len(heap) < MaxObjects
    /\ \E ups \in [1..2 -> BOOLEAN] :
        LET r == from_pyannote(cls, id, token, ups)
            h == IF r.allocated THEN Append(heap, r.obj) ELSE heap
        IN  /\ heap' = h
            /\ visible' = IF r.out.kind = "return"
                          THEN visible \cup {Len(h)} ELSE visible
            /\ last' = [op |-> "from_pyannote", cls |-> cls, id |-> id,
                        out |-> r.out, heard |-> r.heard,
                        self |-> IF r.out.kind = "return" THEN Len(h) ELSE 0]
    /\ UNCHANGED <<has_pyannote, debug, memo, pc, frame>>

\* SegmentationModel() / EmbeddingModel(): the interface classes are plain
\* nn.Module subclasses and can be instantiated as they are.
NewBase(cls) ==
    /\ Len(heap) < MaxObjects
    /\ heap' = Append(heap, [cls |-> cls, model |-> Unset])
    /\ visible' = visible \cup {Len(heap) + 1}
    /\ last' = [op |-> "new", cls |-> cls, out |-> Return("self"),
                heard |-> <<>>, self |-> Len(heap) + 1]
    /\ UNCHANGED <<has_pyannote, debug, memo, pc, frame>>

\* ----------------------------------------------------------------- getters

\* get_sample_rate, had the interface class answered with a default rate.
get_sample_rate_default(self) ==
    LET o == heap[self]
    IN  CASE o.cls = "PyannoteSegmentationModel"
                -> Return(Catalogue[o.model.id].sample_rate)
          [] o.cls = "SegmentationModel" -> Return(16000)
          [] OTHER -> Raise("AttributeError")

\* get_sample_rate, dispatched on the class of self.  The embedding classes
\* define no such method: nn.Module.__getattr__ raises AttributeError.
get_sample_rate(self) ==
    LET o == heap[self]
    IN  CASE o.cls = "PyannoteSegmentationModel"
                -> Return(Catalogue[o.model.id].sample_rate)
          [] o.cls = "SegmentationModel" -> Raise("NotImplementedError")
          [] OTHER -> Raise("AttributeError")

\* get_duration, had it read the field get_sample_rate reads.
get_duration_swapped(self) ==
    LET o == heap[self]
    IN  CASE o.cls = "PyannoteSegmentationModel"
                -> Return(Catalogue[o.model.id].sample_rate)
          [] o.cls = "SegmentationModel" -> Raise("NotImplementedError")
          [] OTHER -> Raise("AttributeError")

\* get_duration, dispatched on the class of self.
get_duration(self) ==
    LET o == heap[self]
    IN  CASE o.cls = "PyannoteSegmentationModel"
                -> Return(Catalogue[o.model.id].duration)
          [] o.cls = "SegmentationModel" -> Raise("NotImplementedError")
          [] OTHER -> Raise("AttributeError")

GetSampleRate(self) ==
    /\ last' = [op |-> "get_sample_rate", self |-> self,
                out |-> get_sample_rate(self), heard |-> <<>>]
    /\ UNCHANGED <<has_pyannote, debug, heap, visible, memo, pc, frame>>

GetDuration(self) ==
    /\ last' = [op |-> "get_duration", self |-> self,
                out |-> get_duration(self), heard |-> <<>>]
    /\ UNCHANGED <<has_pyannote, debug, heap, visible, memo, pc, frame>>

\* ----------------------------------------------------------------- forward

\* What one forward call did: its outcome, the replies of the wrapped model,
\* and the (waveform, weights keyword) it handed to it.
Ran(out, heard, handed) == [out |-> out, heard |-> heard, handed |-> handed]

NotHanded == [tag |-> "NotHanded"]

\* keyword, had the embedding adapter put weights of its own in the place of
\* omitted ones.
keyword_ones(cls, weights) ==
    IF cls = "PyannoteSegmentationModel" THEN NoKeyword
    ELSE IF weights = None THEN Ones(1, 2) ELSE weights

\* The weights keyword of the call self.model(...): the segmentation adapter
\* passes the waveform alone, the embedding adapter passes weights=weights.
keyword(cls, weights) ==
    IF cls = "PyannoteSegmentationModel" THEN NoKeyword ELSE weights

\* __call__, had it called the model again without weights after the model
\* rejected the weights.
call_unweighted(self, waveform, weights) ==
    LET o == heap[self]
    IN  IF o.cls \in BaseClasses
        THEN Ran(Raise("NotImplementedError"), <<>>, NotHanded)
        ELSE LET kw == keyword(o.cls, weights)
                 reply == ModelForward(o.model.id, waveform, kw)
                 again == ModelForward(o.model.id, waveform, None)
             IN  IF reply.kind = "raise" /\ kw \notin {None, NoKeyword}
                 THEN Ran(again, <<reply, again>>,
                          [waveform |-> waveform, kw |-> kw])
                 ELSE Ran(reply, <<reply>>, [waveform |-> waveform, kw |-> kw])

\* __call__, had it run the model on the waveform of the call before it (an
\* input buffer kept on the adapter and refreshed after use).
call_stale(self, waveform, weights) ==
    LET o == heap[self]
    IN  IF o.cls \in BaseClasses
        THEN Ran(Raise("NotImplementedError"), <<>>, NotHanded)
        ELSE LET kw == keyword(o.cls, weights)
                 input == IF last.op = "forward" /\ last.self = self
                          THEN last.waveform ELSE waveform
                 reply == ModelForward(o.model.id, input, kw)
             IN  Ran(reply, <<reply>>, [waveform |-> input, kw |-> kw])

\* __call__, dispatched on the class of self.
call(self, waveform, weights) ==
    LET o == heap[self]
    IN  IF o.cls \in BaseClasses
        THEN Ran(Raise("NotImplementedError"), <<>>, NotHanded)
        ELSE LET kw == keyword(o.cls, weights)
                 reply == ModelForward(o.model.id, waveform, kw)
             IN  Ran(reply, <<reply>>, [waveform |-> waveform, kw |-> kw])

\* The weights a caller may pass to an adapter of class cls: the segmentation
\* signature takes the waveform alone.
WeightsFor(cls) == IF cls \in SegmentationClasses THEN {None} ELSE Weights

\* Forward, had it dropped the wrapped model after a call that raised.
ForwardDropping(self, waveform, weights) ==
    LET r == call(self, waveform, weights)
    IN  /\ last' = [op |-> "forward", self |-> self, waveform |-> waveform,
                    weights |-> weights, out |-> r.out, heard |-> r.heard,
                    handed |-> r.handed]
        /\ heap' = IF r.out.kind = "raise"
                   THEN [heap EXCEPT ![self].model = Unset] ELSE heap
        /\ UNCHANGED <<has_pyannote, debug, visible, memo, pc, frame>>

\* One forward call, start to end, with no other call in between.
Forward(self, waveform, weights) ==
    LET r == call(self, waveform, weights)
    IN  /\ last' = [op |-> "forward", self |-> self, waveform |-> waveform,
                    weights |-> weights, out |-> r.out, heard |-> r.heard,
                    handed |-> r.handed]
        /\ memo' = IF /\ memo # NoMemo
                      /\ memo.self = self
                      /\ memo.waveform = waveform
                      /\ memo.weights = weights
                   THEN [memo EXCEPT !.again = r.out]
                   ELSE memo
        /\ UNCHANGED <<has_pyannote, debug, heap, visible, pc, frame>>

\* The caller keeps the output of the forward call that just ended, to hold a
\* later call on the same adapter and input against it.
Keep ==
    /\ last.op = "forward"
    /\ memo' = [self |-> last.self, waveform |-> last.waveform,
                weights |-> last.weights, first |-> last.out, again |-> None]
    /\ UNCHANGED <<has_pyannote, debug, heap, visible, last, pc, frame>>

\* ------------------------------------------------- forward, step by step

\* A thread enters __call__ on an adapter it holds.
Begin(t, self, waveform, weights) ==
    /\ pc[t] = "idle"
    /\ pc' = [pc EXCEPT ![t] = "entered"]
    /\ frame' = [frame EXCEPT ![t] =
                    [self |-> self, waveform |-> waveform, weights |-> weights,
                     model |-> Unset, out |-> None]]
    /\ UNCHANGED <<has_pyannote, debug, heap, visible, last, memo>>

\* The interface classes raise at once; the adapters read self.model.
Load(t) ==
    /\ pc[t] = "entered"
    /\ LET o == heap[frame[t].self]
       IN  IF o.cls \in BaseClasses
           THEN /\ frame' = [frame EXCEPT
                                ![t].out = Raise("NotImplementedError")]
                /\ pc' = [pc EXCEPT ![t] = "done"]
           ELSE /\ frame' = [frame EXCEPT ![t].model = o.model]
                /\ pc' = [pc EXCEPT ![t] = "loaded"]
    /\ UNCHANGED <<has_pyannote, debug, heap, visible, last, memo>>

\* Invoke, had the arguments been parked on the adapter, where the threads
\* inside a call overwrite each other's.
InvokeShared(t) ==
    /\ pc[t] = "loaded"
    /\ \E u \in Threads :
        /\ pc[u] # "idle"
        /\ frame[u].self = frame[t].self
        /\ frame' = [frame EXCEPT ![t].out =
                        ModelForward(frame[t].model.id, frame[u].waveform,
                                     keyword(heap[frame[t].self].cls,
                                             frame[u].weights))]
    /\ pc' = [pc EXCEPT ![t] = "done"]
    /\ UNCHANGED <<has_pyannote, debug, heap, visible, last, memo>>

\* The adapter calls the model it read, with the arguments it was given.
Invoke(t) ==
    /\ pc[t] = "loaded"
    /\ frame' = [frame EXCEPT ![t].out =
                    ModelForward(frame[t].model.id, frame[t].waveform,
                                 keyword(heap[frame[t].self].cls,
                                         frame[t].weights))]
    /\ pc' = [pc EXCEPT ![t] = "done"]
    /\ UNCHANGED <<has_pyannote, debug, heap, visible, last, memo>>

\* The call returns (or raises) to its caller.
Finish(t) ==
    /\ pc[t] = "done"
    /\ pc' = [pc EXCEPT ![t] = "idle"]
    /\ frame' = [frame EXCEPT ![t] = Idle]
    /\ UNCHANGED <<has_pyannote, debug, heap, visible, last, memo>>

\* ------------------------------------------------------------ specification

Init ==
    /\ has_pyannote \in BOOLEAN
    /\ debug \in BOOLEAN
    /\ heap = <<>>
    /\ visible = {}
    /\ last = NoOp
    /\ memo = NoMemo
    /\ pc = [t \in Threads |-> "idle"]
    /\ frame = [t \in Threads |-> Idle]

Next ==
    \/ \E cls \in HubClasses : \E id \in ModelIds(cls), token \in Tokens :
            FromPyannote(cls, id, token)
    \/ \E cls \in BaseClasses : NewBase(cls)
    \/ \E self \in visible : GetSampleRate(self)
    \/ \E self \in visible : GetDuration(self)
    \/ \E self \in visible, waveform \in Waveforms :
            \E weights \in WeightsFor(heap[self].cls) :
                Forward(self, waveform, weights)

Spec == Init /\ [][Next]_vars

\* What the constructor calls that succeed return.
Adapters ==
    {r.obj : r \in {b \in {from_pyannote(cls, id, token, ups) :
                              cls \in HubClasses, id \in DOMAIN Catalogue,
                              token \in Tokens, ups \in [1..2 -> BOOLEAN]} :
                        b.out.kind = "return"}}

\* One object, already built, shared by the threads.
InitShared ==
    /\ has_pyannote = TRUE
    /\ debug \in BOOLEAN
    /\ heap \in {<<o>> : o \in {a \in Adapters : a.model.id \in ModelIds(a.cls)}
                              \cup {[cls |-> c, model |-> Unset] : c \in BaseClasses}}
    /\ visible = {1}
    /\ last = NoOp
    /\ memo = NoMemo
    /\ pc = [t \in Threads |-> "idle"]
    /\ frame = [t \in Threads |-> Idle]

\* The inputs of the threads: single-item batches.
ThreadWaveforms == {w \in Waveforms : w.batch = 1}
ThreadWeights(cls) == {w \in WeightsFor(cls) : w = None \/ w.batch = 1}

NextThreads ==
    \/ \E t \in Threads, self \in visible, waveform \in ThreadWaveforms :
            \E weights \in ThreadWeights(heap[self].cls) :
                Begin(t, self, waveform, weights)
    \/ \E t \in Threads : Load(t)
    \/ \E t \in Threads : Invoke(t)
    \/ \E t \in Threads : Finish(t)

SpecThreads == InitShared /\ [][NextThreads]_vars

\* The calls on one adapter, with the caller keeping outputs to compare.
NextKeeping ==
    \/ \E self \in visible : GetSampleRate(self)
    \/ \E self \in visible : GetDuration(self)
    \/ \E self \in visible, waveform \in Waveforms :
            \E weights \in WeightsFor(heap[self].cls) :
                Forward(self, waveform, weights)
    \/ Keep

SpecKeeping == InitShared /\ [][NextKeeping]_vars

\* ----------------------------------------------------------------- claims

IsConstruction == last.op = "from_pyannote"
IsForward == last.op = "forward"
IsGetter == last.op \in {"get_sample_rate", "get_duration"}
Failed(out, category) == out.kind = "raise" /\ Taxonomy(out.exc) = category

\* C1: with the hub client absent at import time, every call of a named
\* constructor fails with MissingDependency, returns no adapter and asks the
\* hub nothing.
C1_MissingDependencyFailsFast ==
    (IsConstruction /\ ~has_pyannote) =>
        /\ Failed(last.out, "MissingDependency")
        /\ last.self = 0
        /\ last.heard = <<>>

\* C2: with the hub client present, a lookup that fails makes the constructor
\* raise HubResolutionError and return nothing; no adapter the caller holds
\* has its wrapped model unset.
C2_HubFailureReturnsNoAdapter ==
    /\ (IsConstruction /\ has_pyannote /\ last.heard # <<>>
            /\ last.heard[1].kind = "raise") =>
        /\ Failed(last.out, "HubResolutionError")
        /\ last.self = 0
    /\ \A i \in visible : heap[i].cls \in HubClasses => heap[i].model # Unset

C2_Witness ==
    /\ IsConstruction /\ has_pyannote
    /\ last.heard = <<Raise("RepositoryNotFoundError")>>
    /\ last.out.kind = "raise"
    /\ \E i \in DOMAIN heap : i \notin visible /\ heap[i].model = Unset

C3_Raises ==
    (IsGetter /\ heap[last.self].cls = "SegmentationModel") =>
        Failed(last.out, "UnsupportedOperation")

C3_Untouched ==
    (last' # last /\ last'.op \in {"get_sample_rate", "get_duration"}) =>
        heap' = heap /\ visible' = visible

\* C3: on the interface class SegmentationModel, get_sample_rate and
\* get_duration fail with UnsupportedOperation on every call, return no
\* default, and leave the adapters as they were.
C3_UnsupportedOnInterface == []C3_Raises /\ [][C3_Untouched]_vars

C3_Witness ==
    /\ last.op = "get_duration"
    /\ heap[last.self].cls = "SegmentationModel"
    /\ last.out = Raise("NotImplementedError")

C4_BoundAtConstruction ==
    (IsConstruction /\ last.out.kind = "return") =>
        /\ last.heard[1].kind = "return"
        /\ heap[last.self].model = last.heard[1].val

C4_NeverRebound ==
    /\ Len(heap') >= Len(heap)
    /\ \A i \in DOMAIN heap : heap'[i] = heap[i]

\* C4: the wrapped model of a hub-built adapter is the one the constructor
\* obtained from the lookup, and no later operation reassigns it.
C4_AdapterImmutable == []C4_BoundAtConstruction /\ [][C4_NeverRebound]_vars

C4_Witness ==
    /\ IsForward
    /\ last.out.kind = "raise"
    /\ heap[last.self] = [cls |-> "PyannoteSegmentationModel",
                          model |-> Handle("gated")]

\* C5: on a hub-built segmentation adapter, get_sample_rate returns the
\* audio sample rate of the wrapped model and get_duration the duration of
\* its specifications.
C5_MetadataGetters ==
    (IsGetter /\ heap[last.self].cls = "PyannoteSegmentationModel") =>
        LET m == Catalogue[heap[last.self].model.id]
        IN  /\ last.op = "get_sample_rate" => last.out = Return(m.sample_rate)
            /\ last.op = "get_duration" => last.out = Return(m.duration)

C5_Witness ==
    /\ last.op = "get_duration"
    /\ heap[last.self].cls = "PyannoteSegmentationModel"
    /\ heap[last.self].model = Handle("gated")
    /\ last.out = Return(10)

OnEmbeddingAdapter ==
    IsForward /\ heap[last.self].cls = "PyannoteEmbeddingModel"

\* C6: an embedding adapter called without weights hands the absence to the
\* wrapped model as it is, and what it returns has the shape of the output
\* for all-ones weights of matching shape.
C6_DefaultWeighting ==
    (OnEmbeddingAdapter /\ last.weights = None) =>
        LET id == heap[last.self].model.id
            uniform == ModelForward(id, last.waveform,
                                    Ones(last.waveform.batch,
                                         Frames(id, last.waveform)))
        IN  /\ last.handed = [waveform |-> last.waveform, kw |-> None]
            /\ last.out.kind = uniform.kind
            /\ last.out.kind = "return" =>
                    last.out.val.shape = uniform.val.shape

C6_Witness ==
    /\ OnEmbeddingAdapter /\ last.weights = None
    /\ last.out.kind = "return"
    /\ last.out.val.shape = <<2, 1, 8>>

WeightsMismatch ==
    /\ OnEmbeddingAdapter
    /\ last.weights # None
    /\ \/ last.weights.batch # last.waveform.batch
       \/ last.weights.frames # Frames(heap[last.self].model.id, last.waveform)

\* C7 as stated: weights whose batch or frame dimension does not match the
\* waveform's make the embedding adapter's forward fail with ShapeMismatch.
C7_MismatchAlwaysRaises ==
    WeightsMismatch => Failed(last.out, "ShapeMismatch")

\* C7, amended: the embedding adapter hands waveform and weights to the
\* wrapped model as they are, once, and compares no dimensions itself; the
\* caller gets what the wrapped model answers.  If the model rejects the
\* mismatch, its ShapeMismatch reaches the caller and nothing is returned.
C7_MismatchIsTheModelsVerdict ==
    WeightsMismatch =>
        /\ last.handed = [waveform |-> last.waveform, kw |-> last.weights]
        /\ Len(last.heard) = 1
        /\ last.out = last.heard[1]
        /\ last.out.kind = "raise" => Failed(last.out, "ShapeMismatch")

C7_Witness ==
    /\ WeightsMismatch
    /\ heap[last.self].model = Handle("xvec")
    /\ last.weights.batch = last.waveform.batch
    /\ last.out = Raise("RuntimeError")

\* C8: two forward calls of a segmentation adapter on the same waveform,
\* whatever the calls between them, give the same output.
C8_PurityOfForward ==
    (/\ memo # NoMemo
     /\ heap[memo.self].cls \in SegmentationClasses
     /\ memo.again # None) => memo.again = memo.first

C8_Witness ==
    /\ memo # NoMemo
    /\ heap[memo.self].cls = "PyannoteSegmentationModel"
    /\ memo.again # None
    /\ memo.again.kind = "return"
    /\ last.op = "forward" /\ last.waveform # memo.waveform

\* C9: a construction asks the hub at most once and a forward call invokes
\* the wrapped model at most once; when the one asked fails, its error is
\* the caller's and nothing is returned.
C9_NoRetries ==
    /\ IsConstruction =>
        /\ Len(last.heard) <= 1
        /\ (last.heard # <<>> /\ last.heard[1].kind = "raise") =>
                last.out = last.heard[1] /\ last.self = 0
    /\ IsForward =>
        /\ Len(last.heard) <= 1
        /\ (last.heard # <<>> /\ last.heard[1].kind = "raise") =>
                last.out = last.heard[1]

C9_Witness ==
    /\ IsConstruction
    /\ last.heard = <<Raise("ConnectionError")>>
    /\ last.out = Raise("ConnectionError")
    /\ visible # {}

\* C10: a forward call that ran while other threads were inside forward on
\* the same adapter ends with the result it has when run alone.
C10_ConcurrentForwards ==
    \A t \in Threads :
        pc[t] = "done" =>
            frame[t].out = call(frame[t].self, frame[t].waveform,
                                frame[t].weights).out

C10_Witness ==
    /\ pc[1] = "done" /\ pc[2] = "done"
    /\ frame[1].self = frame[2].self
    /\ frame[1].waveform # frame[2].waveform
    /\ frame[1].out.kind = "return"
    /\ frame[2].out.kind = "raise"

====
